---- MODULE Spec2Model ----
(***************************************************************************)
(* Model of video_subtitle_extractor.py: the consolidation of per-frame    *)
(* OCR detections (SubtitleOption.clean = order_by_frame followed by       *)
(* removed_similar) and the timing formatter                               *)
(* (SubtitleExtractor._to_formatter), together with the configuration      *)
(* globals that _parse_args writes.                                        *)
(*                                                                         *)
(* Numbers.  Detection scores are integers; an average score is kept as    *)
(* the exact fraction <<sum, count>> and two averages are compared by      *)
(* cross-multiplication.  origin_fps is the exact fraction <<num, den>>.   *)
(* A timedelta is its number of microseconds; timedelta(seconds = x)       *)
(* rounds x to the nearest microsecond, ties to even, and so does the      *)
(* model.  The intermediate binary floating-point rounding of Python's     *)
(* float arithmetic is not modelled.                                       *)
(*                                                                         *)
(* fuzz.ratio is a library function outside the repository.  The model    *)
(* knows of it only that equal strings score 100 and that the score is     *)
(* symmetric; its value on every pair of distinct strings a run can        *)
(* present is chosen freely in Init.                                       *)
(***************************************************************************)
EXTENDS Integers, Sequences, FiniteSets, TLC

\* Longest detection list fed to clean.
MaxLen == 4

\* ***** hardcode config ***** (module level defaults)
DefaultMaxShowSecond == 10
DefaultSimilarThreshold == 70

\* timedelta resolution: microseconds in one second.
MicrosPerSecond == 1000000

\* Subtitle(box, text, score, frame_idx); the box plays no part in
\* consolidation or timing and is left out.
Sub(f, t, s) == [frame_idx |-> f, text |-> t, score |-> s]

\* The detections an OCR pass may deliver.
Detections ==
  { Sub(0, "Hi", 90), Sub(0, "there", 90), Sub(5, "Hi there", 85),
    Sub(40, "Bye", 95), Sub(5, "there", 95) }

\* Values --subtitle_max_show_second and --text_similar_threshold may take.
ShowSeconds == {0, 1, DefaultMaxShowSecond}
Thresholds == {DefaultSimilarThreshold - 10, DefaultSimilarThreshold + 10}

\* Frame rates a video may report (CAP_PROP_FPS), as <<num, den>>.
OriginFpsValues == { <<10, 1>>, <<7, 2>>, <<52, 5>> }

\* Scores fuzz.ratio may give to two distinct strings.
RatioScores == {DefaultSimilarThreshold - 1, DefaultSimilarThreshold}

VARIABLES
  subtitles,                 \* the flat detection list handed to clean
  fuzz_ratio,                \* fuzz.ratio on pairs of distinct strings
  origin_fps,                \* Video.origin_fps, <<num, den>>
  fps,                       \* Video.fps = round(origin_fps)
  subtitle_max_show_second,  \* module global
  text_similar_threshold,    \* module global
  threshold,                 \* SubtitleOption.threshold (class attribute)
  pc,                        \* position in the run
  sub_order_by_frame,        \* result of order_by_frame, argument of removed_similar
  res,                       \* removed_similar's result list
  idx,                       \* removed_similar's position in sub_order_by_frame
  frame_subs,                \* the value clean returns
  formatters                 \* the cues _to_formatter returns

\* The output directory and file that Video.save_subtitle touches
VARIABLES
  file_type,                 \* the file_type argument of save
  out_dir,                   \* <directory of the video>/output
  out_file                   \* <output directory>/<basename>.<file_type>

pipeline_vars ==
  << subtitles, fuzz_ratio, origin_fps, fps, subtitle_max_show_second,
     text_similar_threshold, threshold, pc, sub_order_by_frame, res,
     idx, frame_subs, formatters >>

\* the pipeline's variables other than pc
pipeline_data ==
  << subtitles, fuzz_ratio, origin_fps, fps, subtitle_max_show_second,
     text_similar_threshold, threshold, sub_order_by_frame, res,
     idx, frame_subs, formatters >>

\* One call of convert_time_to_frame_idx
VARIABLES
  time_str,                  \* the time_str argument, a sequence of characters
  time_fps,                  \* the fps argument
  time_pc,                   \* "call", "returned", "float_error", "format_error"
  index                      \* the value returned

\* One use of Video.time_to_frame_idxes by extract_by_func: the count pass
\* (count_frame) and then the iteration pass
VARIABLES
  time_start,                \* argument, a sequence of characters
  time_end,                  \* argument, a sequence of characters
  capture_interval,          \* argument: "None" or << n, k >> for n / 10^k
  frame_count,               \* Video.frame_count
  range_fps,                 \* Video.fps
  range_pc,                  \* "call", "counted", "iterated" or the error raised
  frame_start,               \* local of time_to_frame_idxes
  frame_end,                 \* local of time_to_frame_idxes
  step,                      \* local of time_to_frame_idxes
  count,                     \* the value count_frame returns
  yielded                \* the indices the iteration pass yields

\* One run of process_all_videos
VARIABLES
  video_count,               \* len(video_files)
  num_cores,                 \* multiprocessing.cpu_count()
  batch_start,               \* the loop variable i
  batch_pc,                  \* "loop", "pool", "check", "collect", "done"
  queued,                    \* videos of the batch submitted and not started
  running,                   \* videos a worker process is processing
  processed,                 \* videos whose process_video returned
  raised,                    \* videos whose process_video raised
  caught,                    \* exceptions the orchestrator retrieved and logged
  memory_percent,            \* the last value read by check_memory_usage
  slept,                     \* the last check_memory_usage paused and collected
  checks,                    \* calls of check_memory_usage
  collects                   \* calls of gc.collect() by process_all_videos

\* One run of the generator get_video_frames over a sequence of frame
\* indices, and the decoder (cv2.VideoCapture) it drives
VARIABLES
  requested,                 \* the indices frame_idx_iterator yields
  total_frames,              \* frames in the video file
  reader_pc,                 \* "start", "loop", "exhausted", "failed"
  cur_idx,                   \* the local idx
  target,                    \* the local target
  it_next,                   \* position in requested of the next item of it
  cursor,                    \* decoder: the next frame to be grabbed
  grabbed,                   \* decoder: the frame grabbed last, -1 for none
  pairs                      \* the (idx, frame) pairs yielded so far

save_vars == << file_type, out_dir, out_file >>

reader_vars ==
  << requested, total_frames, reader_pc, cur_idx, target, it_next, cursor,
     grabbed, pairs >>

batch_vars ==
  << video_count, num_cores, batch_start, batch_pc, queued, running, processed,
     raised, caught, memory_percent, slept, checks, collects >>

range_args == << time_start, time_end, capture_interval, frame_count, range_fps >>

range_vars ==
  << range_args, range_pc, frame_start, frame_end, step, count, yielded >>

time_vars == << time_str, time_fps, time_pc, index >>

\* what neither the pipeline nor save touches
outside_save == << time_vars, range_vars, batch_vars, reader_vars >>

\* what the consolidation and timing steps never touch
outside_pipeline == << save_vars, outside_save >>

\* what convert_time_to_frame_idx never touches
outside_time == << pipeline_vars, save_vars, range_vars, batch_vars, reader_vars >>

\* what time_to_frame_idxes never touches
outside_range == << pipeline_vars, save_vars, time_vars, batch_vars, reader_vars >>

\* what process_all_videos never touches (the runs of process_video are in
\* its worker processes)
outside_batch == << pipeline_vars, save_vars, time_vars, range_vars, reader_vars >>

\* what get_video_frames never touches
outside_reader == << pipeline_vars, save_vars, time_vars, range_vars, batch_vars >>

vars == << pipeline_vars, save_vars, time_vars, range_vars, batch_vars, reader_vars >>

-----------------------------------------------------------------------------
\* Helpers

Last(s) == s[Len(s)]

\* round() and timedelta's rounding: n/d to the nearest integer, ties to even
\* (n >= 0, d > 0).
RoundHalfEven(n, d) ==
  LET q == n \div d
      r == n % d
  IN IF 2 * r < d THEN q
     ELSE IF 2 * r > d THEN q + 1
     ELSE IF q % 2 = 0 THEN q ELSE q + 1

Min(a, b) == IF a <= b THEN a ELSE b

\* ' '.join(texts)
RECURSIVE join(_)
join(texts) ==
  IF Len(texts) = 0 THEN ""
  ELSE IF Len(texts) = 1 THEN texts[1]
  ELSE texts[1] \o " " \o join(Tail(texts))

Texts(subs) == [i \in 1..Len(subs) |-> subs[i].text]

\* sorted(keys): insertion of each key into the sorted prefix.
RECURSIVE Insert(_, _)
Insert(k, s) ==
  IF s = << >> THEN << k >>
  ELSE IF k < s[1] THEN << k >> \o s
  ELSE << s[1] >> \o Insert(k, Tail(s))

\* sorted(keys, reverse=True)
RECURSIVE sorted_reverse(_)
sorted_reverse(keys) ==
  IF keys = << >> THEN << >>
  ELSE LET m == CHOOSE i \in 1..Len(keys) : \A j \in 1..Len(keys) : keys[j] <= keys[i]
       IN << keys[m] >>
          \o sorted_reverse(SubSeq(keys, 1, m - 1) \o SubSeq(keys, m + 1, Len(keys)))

RECURSIVE sorted(_)
sorted(keys) ==
  IF keys = << >> THEN << >>
  ELSE Insert(keys[Len(keys)], sorted(SubSeq(keys, 1, Len(keys) - 1)))

-----------------------------------------------------------------------------
\* SubtitleOption

\* sub_dict after the first loop of order_by_frame: the detections of one
\* frame in arrival order.
sub_dict(subs, key) == SelectSeq(subs, LAMBDA s : s.frame_idx = key)

\* keys after the first loop: one entry per detection.
keys_of(subs) == [i \in 1..Len(subs) |-> subs[i].frame_idx]

\* order_by_frame walking keys instead of sorted(keys)
order_by_frame_unsorted(subs) ==
  [i \in 1..Len(subs) |-> sub_dict(subs, keys_of(subs)[i])]

order_by_frame(subs) ==
  LET sk == sorted(keys_of(subs))
  IN [i \in 1..Len(sk) |-> sub_dict(subs, sk[i])]

\* calc_avg_score as the exact fraction <<sum of scores, count>>.
RECURSIVE SumScores(_)
SumScores(subs) ==
  IF subs = << >> THEN 0 ELSE subs[1].score + SumScores(Tail(subs))

calc_avg_score(subs) == << SumScores(subs), Len(subs) >>

\* s1 > s2 on two averages.
AvgGreater(s1, s2) == s1[1] * s2[2] > s2[1] * s1[2]

\* choose_better with s1 >= s2: a tie goes to subs1
choose_better_tie(subs1, subs2) ==
  IF ~ AvgGreater(calc_avg_score(subs2), calc_avg_score(subs1))
  THEN subs1 ELSE subs2

\* choose_better that always returns subs1
choose_better_incoming(subs1, subs2) == subs1

\* choose_better with s1 < s2
choose_better_lower(subs1, subs2) ==
  IF AvgGreater(calc_avg_score(subs2), calc_avg_score(subs1))
  THEN subs1 ELSE subs2

choose_better(subs1, subs2) ==
  IF AvgGreater(calc_avg_score(subs1), calc_avg_score(subs2))
  THEN subs1 ELSE subs2

\* fuzz.ratio(text1, text2)
ratio(text1, text2) ==
  IF text1 = text2 THEN 100 ELSE fuzz_ratio[{text1, text2}]

subtitles_similar(subs1, subs2) ==
  ratio(join(Texts(subs1)), join(Texts(subs2))) >= threshold

\* the loop body without the collapse: every bucket is appended
removed_similar_step_append(r, subs) == Append(r, subs)

\* One iteration of removed_similar's loop on the result list r.
removed_similar_step(r, subs) ==
  IF ~ subtitles_similar(subs, Last(r))
  THEN Append(r, subs)
  ELSE [r EXCEPT ![Len(r)] = choose_better(subs, Last(r))]

\* removed_similar on a whole non-empty list.
RECURSIVE removed_similar(_)
removed_similar(groups) ==
  IF Len(groups) = 1 THEN << groups[1] >>
  ELSE removed_similar_step(
         removed_similar(SubSeq(groups, 1, Len(groups) - 1)),
         groups[Len(groups)])

-----------------------------------------------------------------------------
\* SubtitleExtractor._to_formatter

\* seconds, given as the fraction n/d, to a timedelta in microseconds
timedelta(n, d) == RoundHalfEven(n * MicrosPerSecond, d)

\* _to_formatter without the subtitle_max_show_second cap on end_second
to_formatter_uncapped(groups) ==
  LET last_sub_alive == subtitle_max_show_second * fps
      n == Len(groups)
      num == origin_fps[1]
      den == origin_fps[2]
  IN [i \in 1..n |->
        LET first_sub == groups[i][1]
            next_idx == IF i < n THEN groups[i + 1][1].frame_idx
                        ELSE groups[n][1].frame_idx + last_sub_alive
        IN [content |-> join(Texts(groups[i])),
            start_time |-> timedelta(first_sub.frame_idx * den, num),
            end_time |-> timedelta(next_idx * den, num)]]

\* Every group is non-empty: frame_idxes reads subs[0] of each group before
\* the loop, so the loop's skip of an empty group is never taken.
to_formatter(groups) ==
  LET last_sub_alive == subtitle_max_show_second * fps
      n == Len(groups)
      frame_idxes ==
        [i \in 1..(n + 1) |->
           IF i <= n THEN groups[i][1].frame_idx
           ELSE groups[n][1].frame_idx + last_sub_alive]
      num == origin_fps[1]
      den == origin_fps[2]
  IN [i \in 1..n |->
        LET first_sub == groups[i][1]
            alive == frame_idxes[i + 1] - frame_idxes[i]
            \* seconds as numerators over num
            start_second == first_sub.frame_idx * den
            end_second ==
              Min(start_second + subtitle_max_show_second * num,
                  (first_sub.frame_idx + alive) * den)
        IN [content |-> join(Texts(groups[i])),
            start_time |-> timedelta(start_second, num),
            end_time |-> timedelta(end_second, num)]]

-----------------------------------------------------------------------------
\* Inputs

InjectiveSeqs(S, n) ==
  { s \in [1..n -> S] : \A i, j \in 1..n : i # j => s[i] # s[j] }

Inputs == UNION { InjectiveSeqs(Detections, n) : n \in 0..MaxLen }

\* The strings one run can hand to fuzz.ratio: the joined texts of its buckets.
JoinedTexts(subs) ==
  { join(Texts(sub_dict(subs, subs[i].frame_idx))) : i \in 1..Len(subs) }

TextPairs(subs) ==
  { p \in SUBSET JoinedTexts(subs) : Cardinality(p) = 2 }

\* The state before a run over one of the detection lists `inputs`.
PipelineInit(inputs) ==
  /\ subtitles \in inputs
  /\ fuzz_ratio \in [TextPairs(subtitles) -> RatioScores]
  /\ origin_fps \in OriginFpsValues
  /\ fps = RoundHalfEven(origin_fps[1], origin_fps[2])
  /\ subtitle_max_show_second = DefaultMaxShowSecond
  /\ text_similar_threshold = DefaultSimilarThreshold
  /\ threshold = DefaultSimilarThreshold
  /\ pc = "start"
  /\ sub_order_by_frame = << >>
  /\ res = << >>
  /\ idx = 0
  /\ frame_subs = << >>
  /\ formatters = << >>

\* No run of the pipeline in progress.
PipelineIdle ==
  /\ subtitles = << >>
  /\ fuzz_ratio = << >>
  /\ origin_fps = << 10, 1 >>
  /\ fps = 10
  /\ subtitle_max_show_second = DefaultMaxShowSecond
  /\ text_similar_threshold = DefaultSimilarThreshold
  /\ threshold = DefaultSimilarThreshold
  /\ pc = "idle"
  /\ sub_order_by_frame = << >>
  /\ res = << >>
  /\ idx = 0
  /\ frame_subs = << >>
  /\ formatters = << >>

\* save is not called.
SaveIdle ==
  /\ file_type = "lrc"
  /\ out_dir = "absent"
  /\ out_file = "absent"

\* convert_time_to_frame_idx is not called.
TimeIdle ==
  /\ time_str = << >>
  /\ time_fps = 1
  /\ time_pc = "idle"
  /\ index = 0

\* time_to_frame_idxes is not called.
RangeIdle ==
  /\ time_start = << >>
  /\ time_end = << >>
  /\ capture_interval = "None"
  /\ frame_count = 1
  /\ range_fps = 1
  /\ range_pc = "idle"
  /\ frame_start = 0
  /\ frame_end = 0
  /\ step = 0
  /\ count = 0
  /\ yielded = << >>

\* process_all_videos is not called.
BatchIdle ==
  /\ video_count = 0
  /\ num_cores = 1
  /\ batch_start = 0
  /\ batch_pc = "idle"
  /\ queued = 0
  /\ running = 0
  /\ processed = 0
  /\ raised = 0
  /\ caught = 0
  /\ memory_percent = 0
  /\ slept = FALSE
  /\ checks = 0
  /\ collects = 0

\* get_video_frames is not called.
ReaderIdle ==
  /\ requested = << >>
  /\ total_frames = 1
  /\ reader_pc = "idle"
  /\ cur_idx = 0
  /\ target = 0
  /\ it_next = 1
  /\ cursor = 0
  /\ grabbed = -1
  /\ pairs = << >>

OutsideSaveIdle ==
  /\ TimeIdle
  /\ RangeIdle
  /\ BatchIdle
  /\ ReaderIdle

OutsideTimeIdle ==
  /\ PipelineIdle
  /\ SaveIdle
  /\ RangeIdle
  /\ BatchIdle
  /\ ReaderIdle

OutsideRangeIdle ==
  /\ PipelineIdle
  /\ SaveIdle
  /\ TimeIdle
  /\ BatchIdle
  /\ ReaderIdle

OutsideBatchIdle ==
  /\ PipelineIdle
  /\ SaveIdle
  /\ TimeIdle
  /\ RangeIdle
  /\ ReaderIdle

OutsideReaderIdle ==
  /\ PipelineIdle
  /\ SaveIdle
  /\ TimeIdle
  /\ RangeIdle
  /\ BatchIdle

Init ==
  /\ PipelineInit(Inputs)
  /\ SaveIdle
  /\ OutsideSaveIdle

-----------------------------------------------------------------------------
\* Actions

\* _parse_args reaching its last lines: the two globals are rebound.
\* SubtitleOption.threshold was bound when the class was defined.
ParseArgs ==
  /\ pc = "start"
  /\ \E m \in ShowSeconds, t \in Thresholds :
       /\ subtitle_max_show_second' = m
       /\ text_similar_threshold' = t
  /\ pc' = "parsed"
  /\ UNCHANGED << subtitles, fuzz_ratio, origin_fps, fps, threshold,
                  sub_order_by_frame, res, idx, frame_subs, formatters >>
  /\ UNCHANGED outside_pipeline

\* _parse_args raising before the globals are rebound (no path; or no
\* roi_time, where the name threshold_time is unbound).
ParseArgsRaise ==
  /\ pc = "start"
  /\ pc' = "error"
  /\ UNCHANGED << subtitles, fuzz_ratio, origin_fps, fps,
                  subtitle_max_show_second, text_similar_threshold, threshold,
                  sub_order_by_frame, res, idx, frame_subs, formatters >>
  /\ UNCHANGED outside_pipeline

\* clean on an empty list
CleanEmpty ==
  /\ pc \in {"start", "parsed"}
  /\ subtitles = << >>
  /\ frame_subs' = << >>
  /\ pc' = "cleaned"
  /\ UNCHANGED << subtitles, fuzz_ratio, origin_fps, fps,
                  subtitle_max_show_second, text_similar_threshold, threshold,
                  sub_order_by_frame, res, idx, formatters >>
  /\ UNCHANGED outside_pipeline

\* clean: frame_subs = cls.order_by_frame(subtitles)
OrderByFrame ==
  /\ pc \in {"start", "parsed"}
  /\ subtitles # << >>
  /\ sub_order_by_frame' = order_by_frame(subtitles)
  /\ pc' = "ordered"
  /\ UNCHANGED << subtitles, fuzz_ratio, origin_fps, fps,
                  subtitle_max_show_second, text_similar_threshold, threshold,
                  res, idx, frame_subs, formatters >>
  /\ UNCHANGED outside_pipeline

\* removed_similar: res = [sub_order_by_frame[0]]
RemovedSimilarStart ==
  /\ pc = "ordered"
  /\ res' = << sub_order_by_frame[1] >>
  /\ idx' = 2
  /\ pc' = "loop"
  /\ UNCHANGED << subtitles, fuzz_ratio, origin_fps, fps,
                  subtitle_max_show_second, text_similar_threshold, threshold,
                  sub_order_by_frame, frame_subs, formatters >>
  /\ UNCHANGED outside_pipeline

\* removed_similar: one pass of the loop body
RemovedSimilarLoop ==
  /\ pc = "loop"
  /\ idx <= Len(sub_order_by_frame)
  /\ res' = removed_similar_step(res, sub_order_by_frame[idx])
  /\ idx' = idx + 1
  /\ UNCHANGED << subtitles, fuzz_ratio, origin_fps, fps,
                  subtitle_max_show_second, text_similar_threshold, threshold,
                  pc, sub_order_by_frame, frame_subs, formatters >>
  /\ UNCHANGED outside_pipeline

\* removed_similar returns and clean returns its result
RemovedSimilarReturn ==
  /\ pc = "loop"
  /\ idx > Len(sub_order_by_frame)
  /\ frame_subs' = res
  /\ pc' = "cleaned"
  /\ UNCHANGED << subtitles, fuzz_ratio, origin_fps, fps,
                  subtitle_max_show_second, text_similar_threshold, threshold,
                  sub_order_by_frame, res, idx, formatters >>
  /\ UNCHANGED outside_pipeline

\* _to_formatter on a non-empty sequence
ToFormatter ==
  /\ pc = "cleaned"
  /\ frame_subs # << >>
  /\ formatters' = to_formatter(frame_subs)
  /\ pc' = "formatted"
  /\ UNCHANGED << subtitles, fuzz_ratio, origin_fps, fps,
                  subtitle_max_show_second, text_similar_threshold, threshold,
                  sub_order_by_frame, res, idx, frame_subs >>
  /\ UNCHANGED outside_pipeline

\* _to_formatter on an empty sequence: AttributeError('len(subtitles) == 0')
ToFormatterRaise ==
  /\ pc = "cleaned"
  /\ frame_subs = << >>
  /\ pc' = "error"
  /\ UNCHANGED << subtitles, fuzz_ratio, origin_fps, fps,
                  subtitle_max_show_second, text_similar_threshold, threshold,
                  sub_order_by_frame, res, idx, frame_subs, formatters >>
  /\ UNCHANGED outside_pipeline

Next ==
  \/ ParseArgs
  \/ ParseArgsRaise
  \/ CleanEmpty
  \/ OrderByFrame
  \/ RemovedSimilarStart
  \/ RemovedSimilarLoop
  \/ RemovedSimilarReturn
  \/ ToFormatter
  \/ ToFormatterRaise

Spec == Init /\ [][Next]_vars

-----------------------------------------------------------------------------
\* Vocabulary of the properties

FrameOf(group) == group[1].frame_idx

JoinedText(group) == join(Texts(group))

Score(g1, g2) == ratio(JoinedText(g1), JoinedText(g2))

StrictlyIncreasing(groups) ==
  \A i \in 1..(Len(groups) - 1) : FrameOf(groups[i]) < FrameOf(groups[i + 1])

OutOfFrameOrder(subs) ==
  \E i, j \in 1..Len(subs) : i < j /\ subs[i].frame_idx > subs[j].frame_idx

SharedFrame(subs) ==
  \E i, j \in 1..Len(subs) : i # j /\ subs[i].frame_idx = subs[j].frame_idx

\* C1: the sequence clean returns has no two adjacent groups that are
\* similar under subtitles_similar, whatever the similarity relation.
C1_NoAdjacentSimilar ==
  pc = "cleaned" =>
    \A i \in 1..(Len(frame_subs) - 1) :
      ~ subtitles_similar(frame_subs[i], frame_subs[i + 1])

\* C5: order_by_frame returns buckets in ascending frame_idx order, no two
\* buckets sharing a frame_idx, every frame of the input in exactly one bucket.
C5_OneBucketPerFrame ==
  pc = "ordered" =>
    /\ StrictlyIncreasing(sub_order_by_frame)
    /\ \A k \in 1..Len(subtitles) :
         Cardinality({ i \in 1..Len(sub_order_by_frame) :
                         FrameOf(sub_order_by_frame[i]) = subtitles[k].frame_idx }) = 1

\* C7: the collapse treats two buckets as similar exactly when their score
\* is >= the configured threshold (the --text_similar_threshold value).
C7_ConfiguredThreshold ==
  (pc = "loop" /\ idx <= Len(sub_order_by_frame)) =>
    ( subtitles_similar(sub_order_by_frame[idx], Last(res))
      <=> Score(sub_order_by_frame[idx], Last(res)) >= text_similar_threshold )

\* C3: when the incoming bucket is similar to the last kept entry, the kept
\* entry becomes the incoming bucket if its average score is strictly higher
\* and stays as it is otherwise (a tie keeps the existing entry); nothing else
\* of the result list changes.
C3_ReplaceKeepsBetter ==
  [][ ( /\ pc = "loop"
        /\ idx <= Len(sub_order_by_frame)
        /\ Score(sub_order_by_frame[idx], Last(res)) >= threshold )
      => LET incoming == sub_order_by_frame[idx]
             kept == Last(res)
         IN /\ Len(res') = Len(res)
            /\ \A i \in 1..(Len(res) - 1) : res'[i] = res[i]
            /\ Last(res') =
                 IF SumScores(incoming) * Len(kept) > SumScores(kept) * Len(incoming)
                 THEN incoming ELSE kept ]_vars

\* C3 witness: two different similar buckets with equal averages have met and
\* the first one is still the kept entry.
C3_Witness ==
  /\ pc = "loop"
  /\ idx > 2
  /\ \E k \in 2..(idx - 1) :
       /\ sub_order_by_frame[k] # sub_order_by_frame[1]
       /\ \A j \in 2..k : subtitles_similar(sub_order_by_frame[j], sub_order_by_frame[1])
       /\ \A j \in 2..k :
            SumScores(sub_order_by_frame[j]) * Len(sub_order_by_frame[1])
              = SumScores(sub_order_by_frame[1]) * Len(sub_order_by_frame[j])
       /\ idx = k + 1
  /\ res = << sub_order_by_frame[1] >>

\* C4: with the default threshold the sequence clean returns is strictly
\* increasing by frame_idx, every entry non-empty with one frame_idx.
C4_CleanStrictlyIncreasing ==
  (pc = "cleaned" /\ subtitles # << >>) =>
    /\ frame_subs # << >>
    /\ \A i \in 1..Len(frame_subs) :
         /\ frame_subs[i] # << >>
         /\ \A k \in 1..Len(frame_subs[i]) :
              frame_subs[i][k].frame_idx = FrameOf(frame_subs[i])
    /\ StrictlyIncreasing(frame_subs)

\* C4 witness: a list out of frame order with a frame of several detections
\* has been cleaned into more than one entry.
C4_Witness ==
  /\ pc = "cleaned"
  /\ threshold = DefaultSimilarThreshold
  /\ OutOfFrameOrder(subtitles)
  /\ SharedFrame(subtitles)
  /\ Len(frame_subs) >= 2

\* Runs of consecutive buckets

AvgOf(group) == calc_avg_score(group)

AllSimilarToFirst(run) ==
  \A i \in 1..Len(run) : Score(run[i], run[1]) >= threshold

PairwiseSimilar(run) ==
  \A i, j \in 1..Len(run) : Score(run[i], run[j]) >= threshold

\* g has the highest average score of the run
HasHighestAvg(g, run) ==
  /\ \E i \in 1..Len(run) : run[i] = g
  /\ \A i \in 1..Len(run) : ~ AvgGreater(AvgOf(run[i]), AvgOf(g))

\* the earliest bucket of the run whose average no bucket of the run exceeds
FirstHighest(run) ==
  run[CHOOSE i \in 1..Len(run) :
        /\ \A j \in 1..Len(run) : ~ AvgGreater(AvgOf(run[j]), AvgOf(run[i]))
        /\ \A j \in 1..(i - 1) : AvgGreater(AvgOf(run[i]), AvgOf(run[j]))]

Runs(groups) ==
  { SubSeq(groups, i, j) : i \in 1..Len(groups), j \in 1..Len(groups) } \ { << >> }

\* C2 as stated: every run of consecutive buckets whose members are all
\* similar to its first member collapses to exactly one kept entry, a bucket
\* of the run with the highest average score.
C2_RunSimilarToFirstCollapses ==
  pc = "cleaned" =>
    /\ \A run \in Runs(sub_order_by_frame) :
         AllSimilarToFirst(run) =>
           /\ Len(removed_similar(run)) = 1
           /\ HasHighestAvg(removed_similar(run)[1], run)
    /\ (sub_order_by_frame # << >> /\ AllSimilarToFirst(sub_order_by_frame)) =>
         /\ Len(frame_subs) = 1
         /\ HasHighestAvg(frame_subs[1], sub_order_by_frame)

\* C2 amended: every run of consecutive buckets that are similar to one
\* another (each to each) collapses to exactly one kept entry, the earliest
\* bucket of the run with the highest average score.
C2_PairwiseSimilarRunCollapses ==
  pc = "cleaned" =>
    /\ \A run \in Runs(sub_order_by_frame) :
         PairwiseSimilar(run) => removed_similar(run) = << FirstHighest(run) >>
    /\ (sub_order_by_frame # << >> /\ PairwiseSimilar(sub_order_by_frame)) =>
         frame_subs = << FirstHighest(sub_order_by_frame) >>

\* C2 witness: three different frames, similar each to each, were collapsed
\* to one entry that is not the first bucket.
C2_Witness ==
  /\ pc = "cleaned"
  /\ Cardinality({ FrameOf(sub_order_by_frame[i]) : i \in 1..Len(sub_order_by_frame) }) = 3
  /\ PairwiseSimilar(sub_order_by_frame)
  /\ Len(frame_subs) = 1
  /\ frame_subs[1] # sub_order_by_frame[1]

\* Permutations of a detection list

Perms(n) == Permutations(1..n)

Permuted(subs, p) == [i \in 1..Len(subs) |-> subs[p[i]]]

Count(seq, x) == Cardinality({ i \in 1..Len(seq) : seq[i] = x })

SameMembers(g1, g2) ==
  /\ Len(g1) = Len(g2)
  /\ \A i \in 1..Len(g1) : Count(g1, g1[i]) = Count(g2, g1[i])

\* C6 as stated: order_by_frame of any permutation of the list is identical
\* to order_by_frame of the list, the order of members inside each bucket
\* included.
C6_PermutationIdentical ==
  pc = "ordered" =>
    \A p \in Perms(Len(subtitles)) :
      order_by_frame(Permuted(subtitles, p)) = sub_order_by_frame

\* C6 amended: order_by_frame of any permutation of the list gives the same
\* number of buckets, the same frame_idx at every position and the same
\* members in every bucket; the members of a bucket stand in the order in
\* which the list delivers them.
C6_PermutationSameBuckets ==
  pc = "ordered" =>
    /\ \A p \in Perms(Len(subtitles)) :
         LET other == order_by_frame(Permuted(subtitles, p))
         IN /\ Len(other) = Len(sub_order_by_frame)
            /\ \A i \in 1..Len(other) :
                 /\ FrameOf(other[i]) = FrameOf(sub_order_by_frame[i])
                 /\ SameMembers(other[i], sub_order_by_frame[i])
    /\ \A i \in 1..Len(sub_order_by_frame) :
         sub_order_by_frame[i] = sub_dict(subtitles, FrameOf(sub_order_by_frame[i]))

\* C6 witness: a list out of frame order, with a frame of several detections,
\* has been grouped.
C6_Witness ==
  /\ pc = "ordered"
  /\ OutOfFrameOrder(subtitles)
  /\ SharedFrame(subtitles)
  /\ Len(subtitles) >= 3

\* Cue timing, in microseconds

MaxShow == subtitle_max_show_second * MicrosPerSecond

\* the start time of the group after cue i; for the last cue the synthetic
\* boundary frame_idx + max_show_seconds * fps, as a time
NextStart(i) ==
  IF i < Len(formatters) THEN formatters[i + 1].start_time
  ELSE timedelta((FrameOf(frame_subs[Len(frame_subs)]) + subtitle_max_show_second * fps)
                   * origin_fps[2], origin_fps[1])

\* C8: every cue ends at min(start + max_show_seconds, start of the next
\* group), hence start <= end, end - start <= max_show_seconds and
\* end <= start of the next cue.
C8_CueEnd ==
  (pc = "formatted" /\ StrictlyIncreasing(frame_subs)) =>
    \A i \in 1..Len(formatters) :
      LET c == formatters[i]
      IN /\ c.end_time = Min(c.start_time + MaxShow, NextStart(i))
         /\ c.start_time <= c.end_time
         /\ c.end_time - c.start_time <= MaxShow
         /\ i < Len(formatters) => c.end_time <= formatters[i + 1].start_time

\* C8 witness: of two consecutive cues the first is cut by the cap before the
\* next one starts, and a later cue runs up to its successor uncapped.
C8_Witness ==
  /\ pc = "formatted"
  /\ StrictlyIncreasing(frame_subs)
  /\ Len(formatters) = 3
  /\ formatters[1].end_time = formatters[2].start_time
  /\ formatters[1].end_time < formatters[1].start_time + MaxShow
  /\ formatters[2].end_time = formatters[2].start_time + MaxShow
  /\ formatters[2].end_time < formatters[3].start_time

\* C9: clean followed by _to_formatter gives one cue per consolidated group,
\* in order, and start times never decrease.
C9_StartTimesMonotone ==
  (pc = "formatted" /\ subtitles # << >>) =>
    /\ Len(formatters) = Len(frame_subs)
    /\ \A i \in 1..Len(formatters) :
         /\ formatters[i].content = JoinedText(frame_subs[i])
         /\ formatters[i].start_time
              = timedelta(FrameOf(frame_subs[i]) * origin_fps[2], origin_fps[1])
    /\ \A i \in 1..(Len(formatters) - 1) :
         formatters[i].start_time <= formatters[i + 1].start_time

\* C9 witness: detections that arrived out of frame order became three cues.
C9_Witness ==
  /\ pc = "formatted"
  /\ OutOfFrameOrder(subtitles)
  /\ Len(formatters) = 3

\* The scenario: (0 "Hi" 90), (0 "there" 90), (5 "Hi there" 85), (40 "Bye" 95),
\* fps = origin_fps = 10, threshold 70, max_show_seconds 10; "Hi there" and
\* "Bye" score below the threshold.
Scenario ==
  /\ subtitles = << Sub(0, "Hi", 90), Sub(0, "there", 90),
                    Sub(5, "Hi there", 85), Sub(40, "Bye", 95) >>
  /\ origin_fps = << 10, 1 >>
  /\ fps = 10
  /\ threshold = 70
  /\ subtitle_max_show_second = 10
  /\ ratio("Hi there", "Bye") < threshold

Cue(content, start_micros, end_micros) ==
  [content |-> content, start_time |-> start_micros, end_time |-> end_micros]

\* C10 as stated: the scenario yields the two cues (0.0, 10.0, "Hi there")
\* and (4.0, 14.0, "Bye").
C10_ScenarioAsStated ==
  (pc = "formatted" /\ Scenario) =>
    formatters = << Cue("Hi there", 0, 10000000), Cue("Bye", 4000000, 14000000) >>

\* C10 amended: the scenario yields the two cues (0.0, 4.0, "Hi there") and
\* (4.0, 14.0, "Bye"): the first cue ends when the next one starts.
C10_ScenarioCues ==
  (pc = "formatted" /\ Scenario) =>
    formatters = << Cue("Hi there", 0, 4000000), Cue("Bye", 4000000, 14000000) >>

\* C10 witness: the scenario has been formatted.
C10_Witness ==
  /\ pc = "formatted"
  /\ Scenario
  /\ Len(formatters) = 2

-----------------------------------------------------------------------------
\* SubtitleExtractor.save: _to_formatter, then Video.save_subtitle_by_formatter

\* Longest detection list of a run that ends in save.
SaveMaxLen == 2

\* The properties of SubtitleFormatter: file_type_list of _check_file_type.
file_type_list == {"lrc", "txt"}

\* The file_type arguments a caller may pass.
RequestedTypes == {"lrc", "txt", "LRC", "srt"}

\* str.lower on the requested types
lower(s) == IF s = "LRC" THEN "lrc" ELSE s

\* _check_file_type that accepts every type
check_file_type_any(ft) == TRUE

\* _check_file_type: TRUE when it returns, FALSE when it raises
check_file_type(ft) == lower(ft) \in file_type_list

SaveInputs == UNION { InjectiveSeqs(Detections, n) : n \in 0..SaveMaxLen }

\* A directory or file is "absent", "present" (there before the run) or made
\* by the run: the directory "created", the file "truncated" by open(.., "w")
\* and then "written".
SaveInit ==
  /\ PipelineInit(SaveInputs)
  /\ file_type \in RequestedTypes
  /\ out_dir \in {"absent", "present"}
  /\ out_file \in {"absent", "present"}
  /\ out_file = "present" => out_dir = "present"
  /\ OutsideSaveIdle

\* save_subtitle_by_formatter: suffix = self._check_file_type(file_type)
CheckFileType ==
  /\ pc = "formatted"
  /\ check_file_type(file_type)
  /\ pc' = "type_checked"
  /\ UNCHANGED << pipeline_data, save_vars, outside_save >>

\* _check_file_type raises AttributeError('supported file type: ...')
CheckFileTypeRaise ==
  /\ pc = "formatted"
  /\ ~ check_file_type(file_type)
  /\ pc' = "error"
  /\ UNCHANGED << pipeline_data, save_vars, outside_save >>

\* save_subtitle: os.makedirs(.., exist_ok=True), after the content is joined
MakeDirs ==
  /\ pc = "type_checked"
  /\ out_dir' = IF out_dir = "absent" THEN "created" ELSE out_dir
  /\ pc' = "dirs_made"
  /\ UNCHANGED << pipeline_data, file_type, out_file, outside_save >>

\* save_subtitle: open(file_path, "w")
OpenFile ==
  /\ pc = "dirs_made"
  /\ out_file' = "truncated"
  /\ pc' = "opened"
  /\ UNCHANGED << pipeline_data, file_type, out_dir, outside_save >>

\* save_subtitle: file.write(subtitles) and the file is closed
WriteFile ==
  /\ pc = "opened"
  /\ out_file' = "written"
  /\ pc' = "saved"
  /\ UNCHANGED << pipeline_data, file_type, out_dir, outside_save >>

\* process_video: extract (clean) and save, without _parse_args
SaveNext ==
  \/ CleanEmpty
  \/ OrderByFrame
  \/ RemovedSimilarStart
  \/ RemovedSimilarLoop
  \/ RemovedSimilarReturn
  \/ ToFormatter
  \/ ToFormatterRaise
  \/ CheckFileType
  \/ CheckFileTypeRaise
  \/ MakeDirs
  \/ OpenFile
  \/ WriteFile

SaveSpec == SaveInit /\ [][SaveNext]_vars

OutputUntouched ==
  /\ out_dir \in {"absent", "present"}
  /\ out_file \in {"absent", "present"}

\* C11: save leaves no output behind on failure: an empty consolidated
\* sequence raises and an unrecognized format raises, in both cases with no
\* directory created and no file created or overwritten; the file is written
\* only after the whole cue sequence is computed and the format accepted.
C11_NoOutputOnFailure ==
  /\ pc = "error" => OutputUntouched
  /\ (subtitles = << >> /\ pc # "start") =>
       (pc \in {"cleaned", "error"} /\ OutputUntouched)
  /\ (lower(file_type) \notin {"lrc", "txt"} /\ formatters # << >>) =>
       (pc \in {"formatted", "error"} /\ OutputUntouched)
  /\ ~ OutputUntouched =>
       /\ frame_subs # << >>
       /\ formatters = to_formatter(frame_subs)
       /\ lower(file_type) \in {"lrc", "txt"}

\* C11 witness: the unsupported-format error was raised after the cues were
\* computed, with an older output file in place.
C11_Witness ==
  /\ pc = "error"
  /\ formatters # << >>
  /\ out_file = "present"

-----------------------------------------------------------------------------
\* convert_time_to_frame_idx(time_str, fps)

\* Most colon-separated fields of a time string.
MaxFields == 3

\* A time string is a sequence of one-character strings.  The fields the
\* time strings are built from: "", "1", "02", "03.5", "90", ".5", "1." and
\* "1.2.3" (which float rejects).
FieldTexts ==
  { << >>,
    << "1" >>,
    << "0", "2" >>,
    << "0", "3", ".", "5" >>,
    << "9", "0" >>,
    << ".", "5" >>,
    << "1", "." >>,
    << "1", ".", "2", ".", "3" >> }

\* Values of Video.fps, an integer (round(origin_fps)).
FpsValues == {10, 25, 30}

RECURSIVE join_colon(_)
\* ":".join(fields)
join_colon(fields) ==
  IF Len(fields) = 1 THEN fields[1]
  ELSE fields[1] \o << ":" >> \o join_colon(Tail(fields))

TimeStrings ==
  { join_colon(f) : f \in UNION { [1..n -> FieldTexts] : n \in 1..MaxFields } }

RECURSIVE split(_)
\* time_str.split(':')
split(s) ==
  IF \A i \in 1..Len(s) : s[i] # ":" THEN << s >>
  ELSE LET i == CHOOSE i \in 1..Len(s) :
                  s[i] = ":" /\ \A j \in 1..(i - 1) : s[j] # ":"
       IN  << SubSeq(s, 1, i - 1) >> \o split(SubSeq(s, i + 1, Len(s)))

DigitChars == << "0", "1", "2", "3", "4", "5", "6", "7", "8", "9" >>

IsDigit(c) == \E d \in 1..10 : DigitChars[d] = c

DigitValue(c) == (CHOOSE d \in 1..10 : DigitChars[d] = c) - 1

RECURSIVE DigitsValue(_)
\* the number a sequence of decimal digits denotes
DigitsValue(ds) ==
  IF ds = << >> THEN 0
  ELSE 10 * DigitsValue(SubSeq(ds, 1, Len(ds) - 1)) + DigitValue(ds[Len(ds)])

RECURSIVE Pow10(_)
Pow10(k) == IF k = 0 THEN 1 ELSE 10 * Pow10(k - 1)

\* float(field) returns (rather than raising ValueError), for fields made of
\* digits and points: at least one digit and at most one point.
float_accepts(f) ==
  /\ \A i \in 1..Len(f) : IsDigit(f[i]) \/ f[i] = "."
  /\ \E i \in 1..Len(f) : IsDigit(f[i])
  /\ Cardinality({ i \in 1..Len(f) : f[i] = "." }) <= 1

\* float(field) as << n, k >>, the number n / 10^k
float(f) ==
  LET points == { i \in 1..Len(f) : f[i] = "." }
      k == IF points = {} THEN 0 ELSE Len(f) - (CHOOSE i \in points : TRUE)
  IN  << DigitsValue(SelectSeq(f, IsDigit)), k >>

Max(a, b) == IF a >= b THEN a ELSE b

RECURSIVE MaxPlaces(_)
MaxPlaces(t) == IF t = << >> THEN 0 ELSE Max(t[1][2], MaxPlaces(Tail(t)))

RECURSIVE Scaled(_, _, _)
\* the sum of weight * value over the fields, in units of 10^-k
Scaled(t, weights, k) ==
  IF t = << >> THEN 0
  ELSE weights[1] * t[1][1] * Pow10(k - t[1][2])
         + Scaled(Tail(t), Tail(weights), k)

\* timedelta(hours=, minutes=, seconds=).total_seconds() or
\* timedelta(minutes=, seconds=).total_seconds(), as << n, k >>.  The fields
\* have fewer than six decimal places, so timedelta's rounding to
\* microseconds changes nothing.
total_seconds(t) ==
  LET k == MaxPlaces(t)
      weights == IF Len(t) = 3 THEN << 3600, 60, 1 >> ELSE << 60, 1 >>
  IN  << Scaled(t, weights, k), k >>

\* convert_time_to_frame_idx that rounds to the nearest index
convert_time_to_frame_idx_round(s, f) ==
  IF s = << >> THEN [kind |-> "returned", index |-> 0]
  ELSE
    LET parts == split(s) IN
    IF \E i \in 1..Len(parts) : ~ float_accepts(parts[i])
    THEN [kind |-> "float_error", index |-> 0]
    ELSE IF Len(parts) \notin {2, 3}
    THEN [kind |-> "format_error", index |-> 0]
    ELSE LET ts == total_seconds([i \in 1..Len(parts) |-> float(parts[i])])
         IN  [kind |-> "returned",
              index |-> RoundHalfEven(ts[1] * f, Pow10(ts[2]))]

\* convert_time_to_frame_idx: the value returned or the error raised.  The
\* list comprehension calls float on every field before the fields are
\* counted; int() truncates.
convert_time_to_frame_idx(s, f) ==
  IF s = << >> THEN [kind |-> "returned", index |-> 0]
  ELSE
    LET parts == split(s) IN
    IF \E i \in 1..Len(parts) : ~ float_accepts(parts[i])
    THEN [kind |-> "float_error", index |-> 0]
    ELSE IF Len(parts) \notin {2, 3}
    THEN [kind |-> "format_error", index |-> 0]
    ELSE LET ts == total_seconds([i \in 1..Len(parts) |-> float(parts[i])])
         IN  [kind |-> "returned", index |-> (ts[1] * f) \div Pow10(ts[2])]

TimeInit ==
  /\ time_str \in TimeStrings
  /\ time_fps \in FpsValues
  /\ time_pc = "call"
  /\ index = 0
  /\ OutsideTimeIdle

\* the call returns an index
ConvertReturn ==
  /\ time_pc = "call"
  /\ LET r == convert_time_to_frame_idx(time_str, time_fps) IN
       /\ r.kind = "returned"
       /\ time_pc' = "returned"
       /\ index' = r.index
  /\ UNCHANGED << time_str, time_fps, outside_time >>

\* the call raises ValueError, from float or for the number of fields
ConvertRaise ==
  /\ time_pc = "call"
  /\ LET r == convert_time_to_frame_idx(time_str, time_fps) IN
       /\ r.kind # "returned"
       /\ time_pc' = r.kind
  /\ UNCHANGED << time_str, time_fps, index, outside_time >>

TimeNext ==
  \/ ConvertReturn
  \/ ConvertRaise

TimeSpec == TimeInit /\ [][TimeNext]_vars

\* the time string "1:02:03.5"
ScenarioTime ==
  << "1", ":", "0", "2", ":", "0", "3", ".", "5" >>

ScenarioConverted ==
  /\ time_pc = "returned"
  /\ time_str = ScenarioTime
  /\ time_fps = 25

\* C12 as stated: convert_time_to_frame_idx("1:02:03.5", 25) returns 93838.
C12_ScenarioAsStated ==
  ScenarioConverted => index = 93838

\* C12: convert_time_to_frame_idx takes the total seconds of the fields
\* (hours, minutes, seconds or minutes, seconds), multiplies by fps and
\* truncates: index <= seconds * fps < index + 1; for "1:02:03.5" at 25 fps
\* that is 3723.5 * 25 = 93087.5, truncated to 93087.
C12_ScenarioTruncates ==
  /\ ScenarioConverted => index = 93087
  /\ (time_pc = "returned" /\ time_str # << >>) =>
       LET parts == split(time_str)
           t == [i \in 1..Len(parts) |-> float(parts[i])]
           k == MaxPlaces(t)
           n == IF Len(t) = 3
                THEN (3600 * t[1][1] * Pow10(k - t[1][2]))
                       + (60 * t[2][1] * Pow10(k - t[2][2]))
                       + (t[3][1] * Pow10(k - t[3][2]))
                ELSE (60 * t[1][1] * Pow10(k - t[1][2]))
                       + (t[2][1] * Pow10(k - t[2][2]))
       IN  /\ Len(t) \in {2, 3}
           /\ index * Pow10(k) <= n * time_fps
           /\ n * time_fps < (index + 1) * Pow10(k)

\* C12 witness: the scenario's call has returned.
C12_Witness ==
  /\ ScenarioConverted
  /\ index = 93087

-----------------------------------------------------------------------------
\* Video.time_to_frame_idxes and Video.count_frame

\* The time strings "", "1", "0:01", "0:02" and "0:03.5".
RangeTimes ==
  { << >>,
    << "1" >>,
    << "0", ":", "0", "1" >>,
    << "0", ":", "0", "2" >>,
    << "0", ":", "0", "3", ".", "5" >> }

\* capture_interval: None, 0, 0.01, 0.3, 0.5, 1 and 2
Intervals ==
  { "None", << 0, 0 >>, << 1, 2 >>, << 3, 1 >>, << 5, 1 >>, << 1, 0 >>, << 2, 0 >> }

\* Video.frame_count
FrameCounts == {1, 40, 100}

\* Python truth value of capture_interval
truthy(ci) == ci # "None" /\ ci[1] # 0

RECURSIVE range(_, _, _)
\* list(range(a, b, s)) for s > 0
range(a, b, s) == IF a >= b THEN << >> ELSE << a >> \o range(a + s, b, s)

\* One pass over time_to_frame_idxes(ts, te, ci) on a video of fc frames at
\* f frames per second: how it ends, its locals and the indices it yields.
\* range() raises ValueError when step is 0.
time_to_frame_idxes(ts, te, ci, fc, f) ==
  LET cs == convert_time_to_frame_idx(ts, f)
      ce == convert_time_to_frame_idx(te, f)
      fs == IF ts = << >> THEN 0 ELSE cs.index
      fe == IF te = << >> THEN fc - 1 ELSE ce.index
      st == IF ~ truthy(ci) THEN 1 ELSE (ci[1] * f) \div Pow10(ci[2])
      none == [kind |-> "ok", frame_start |-> 0, frame_end |-> 0, step |-> 0,
               idxes |-> << >>]
  IN  IF ts # << >> /\ cs.kind # "returned"
      THEN [none EXCEPT !.kind = cs.kind]
      ELSE IF te # << >> /\ ce.kind # "returned"
      THEN [none EXCEPT !.kind = ce.kind, !.frame_start = fs]
      ELSE IF fe < fs
      THEN [none EXCEPT !.kind = "range_error", !.frame_start = fs,
                        !.frame_end = fe]
      ELSE IF st = 0
      THEN [none EXCEPT !.kind = "step_error", !.frame_start = fs,
                        !.frame_end = fe]
      ELSE [kind |-> "ok", frame_start |-> fs, frame_end |-> fe, step |-> st,
            idxes |-> range(fs, fe, st)]

RangeInit ==
  /\ time_start \in RangeTimes
  /\ time_end \in RangeTimes
  /\ capture_interval \in Intervals
  /\ frame_count \in FrameCounts
  /\ range_fps \in FpsValues
  /\ range_pc = "call"
  /\ frame_start = 0
  /\ frame_end = 0
  /\ step = 0
  /\ count = 0
  /\ yielded = << >>
  /\ OutsideRangeIdle

\* count_frame: sum(1 for _ in indexes) over a fresh generator
CountFrame ==
  /\ range_pc = "call"
  /\ LET r == time_to_frame_idxes(time_start, time_end, capture_interval,
                                  frame_count, range_fps) IN
       /\ r.kind = "ok"
       /\ frame_start' = r.frame_start
       /\ frame_end' = r.frame_end
       /\ step' = r.step
       /\ count' = Len(r.idxes)
  /\ range_pc' = "counted"
  /\ UNCHANGED << range_args, yielded, outside_range >>

\* count_frame: the generator raises on its first next()
CountFrameRaise ==
  /\ range_pc = "call"
  /\ LET r == time_to_frame_idxes(time_start, time_end, capture_interval,
                                  frame_count, range_fps) IN
       /\ r.kind # "ok"
       /\ frame_start' = r.frame_start
       /\ frame_end' = r.frame_end
       /\ step' = r.step
       /\ range_pc' = r.kind
  /\ UNCHANGED << range_args, count, yielded, outside_range >>

\* get_frames_by_time_range: the second generator, run to its end by the
\* loop of extract_by_func
Iterate ==
  /\ range_pc = "counted"
  /\ LET r == time_to_frame_idxes(time_start, time_end, capture_interval,
                                  frame_count, range_fps) IN
       /\ r.kind = "ok"
       /\ frame_start' = r.frame_start
       /\ frame_end' = r.frame_end
       /\ step' = r.step
       /\ yielded' = r.idxes
  /\ range_pc' = "iterated"
  /\ UNCHANGED << range_args, count, outside_range >>

RangeNext ==
  \/ CountFrame
  \/ CountFrameRaise
  \/ Iterate

RangeSpec == RangeInit /\ [][RangeNext]_vars

\* both time arguments were converted and the range was not rejected
StepReached == range_pc \in {"counted", "iterated", "step_error"}

\* C13: the step is 1 when the capture interval is zero or unset, otherwise
\* round(interval * fps) and at least 1; for every interval > 0 the step is
\* positive and the sequence is produced without error.
C13_StepRoundedAtLeastOne ==
  StepReached =>
    IF truthy(capture_interval)
    THEN /\ range_pc # "step_error"
         /\ step = Max(1, RoundHalfEven(capture_interval[1] * range_fps,
                                        Pow10(capture_interval[2])))
    ELSE step = 1

\* What time_to_frame_idxes does: the step is 1 when the interval is zero or
\* unset, otherwise interval * fps truncated, and a step of 0 is an error.
C13_StepTruncated ==
  StepReached =>
    LET st == IF truthy(capture_interval)
              THEN (capture_interval[1] * range_fps) \div Pow10(capture_interval[2])
              ELSE 1
    IN  /\ range_pc = "step_error" <=> st = 0
        /\ range_pc # "step_error" => step = st

\* the time arguments are empty or well-formed
TimesConverted == range_pc \notin {"call", "float_error", "format_error"}

ResolvedStart ==
  IF time_start = << >> THEN 0
  ELSE convert_time_to_frame_idx(time_start, range_fps).index

ResolvedEnd ==
  IF time_end = << >> THEN frame_count - 1
  ELSE convert_time_to_frame_idx(time_end, range_fps).index

\* yielded is frame_start, frame_start + step, ... below frame_end
IsStepped(idxes) ==
  /\ \A i \in 1..Len(idxes) : idxes[i] = frame_start + ((i - 1) * step)
  /\ \A i \in 1..Len(idxes) : idxes[i] < frame_end
  /\ frame_start + (Len(idxes) * step) >= frame_end

\* C14: an empty time_start resolves to frame 0 and an empty time_end to
\* frame_count - 1; the invalid-range error is raised exactly when the end
\* frame is below the start frame; otherwise the indices frame_start,
\* frame_start + step, ... below frame_end are produced, and the count pass
\* gives the number of indices of the iteration pass.
C14_RangeAsStated ==
  TimesConverted =>
    /\ frame_start = ResolvedStart
    /\ frame_end = ResolvedEnd
    /\ range_pc = "range_error" <=> ResolvedEnd < ResolvedStart
    /\ range_pc # "range_error" => range_pc \in {"counted", "iterated"}
    /\ range_pc = "iterated" => (IsStepped(yielded) /\ count = Len(yielded))

\* C14 apart from a step of 0
C14_RangeWhenStepPositive ==
  (TimesConverted /\ range_pc # "step_error") =>
    /\ frame_start = ResolvedStart
    /\ frame_end = ResolvedEnd
    /\ range_pc = "range_error" <=> ResolvedEnd < ResolvedStart
    /\ range_pc # "range_error" => range_pc \in {"counted", "iterated"}
    /\ range_pc = "iterated" => (IsStepped(yielded) /\ count = Len(yielded))

-----------------------------------------------------------------------------
\* process_all_videos, process_video and check_memory_usage

\* Most worker processes (cpu_count) of a run.
MaxCores == 2

\* Most videos of a run whose process_video raises.
MaxRaised == 2

\* batch_size of process_all_videos
batch_size == 100

\* check_memory_usage pauses above this percentage
MemoryHighPercent == 90

\* Numbers of videos found: none, one, a full batch, one more, and two full
\* batches and one more.
VideoCounts == {0, 1, batch_size, batch_size + 1, (2 * batch_size) + 1}

\* psutil.virtual_memory().percent
MemoryPercents == {50, MemoryHighPercent, MemoryHighPercent + 1}

\* a batch that takes every remaining video
batch_len_all(n, i) == n - i

\* len(video_files[i:i + batch_size]) for n videos
batch_len(n, i) == Min(batch_size, n - i)

BatchInit ==
  /\ video_count \in VideoCounts
  /\ num_cores \in 1..MaxCores
  /\ batch_start = 0
  /\ batch_pc = "loop"
  /\ queued = 0
  /\ running = 0
  /\ processed = 0
  /\ raised = 0
  /\ caught = 0
  /\ memory_percent = 0
  /\ slept = FALSE
  /\ checks = 0
  /\ collects = 0
  /\ OutsideBatchIdle

\* The loop takes the next slice, creates the pool and executor.map submits
\* every video of the slice; the iterator map returns is dropped.
StartBatch ==
  /\ batch_pc = "loop"
  /\ batch_start < video_count
  /\ queued' = batch_len(video_count, batch_start)
  /\ batch_pc' = "pool"
  /\ UNCHANGED << video_count, num_cores, batch_start, running, processed,
                  raised, caught, memory_percent, slept, checks, collects,
                  outside_batch >>

\* A free worker process of the pool (max_workers=num_cores) takes a video.
WorkerStart ==
  /\ batch_pc = "pool"
  /\ queued > 0
  /\ running < num_cores
  /\ queued' = queued - 1
  /\ running' = running + 1
  /\ UNCHANGED << video_count, num_cores, batch_start, batch_pc, processed,
                  raised, caught, memory_percent, slept, checks, collects,
                  outside_batch >>

\* process_video returns: the subtitles are extracted and saved.
WorkerReturn ==
  /\ batch_pc = "pool"
  /\ running > 0
  /\ running' = running - 1
  /\ processed' = processed + 1
  /\ UNCHANGED << video_count, num_cores, batch_start, batch_pc, queued,
                  raised, caught, memory_percent, slept, checks, collects,
                  outside_batch >>

\* process_video raises: the worker stores the exception in the video's
\* future and goes on; no statement reads the future.
WorkerRaise ==
  /\ batch_pc = "pool"
  /\ running > 0
  /\ raised < MaxRaised
  /\ running' = running - 1
  /\ raised' = raised + 1
  /\ UNCHANGED << video_count, num_cores, batch_start, batch_pc, queued,
                  processed, caught, memory_percent, slept, checks, collects,
                  outside_batch >>

\* The with block ends: shutdown(wait=True) returns once every submitted
\* video is done.
ExitPool ==
  /\ batch_pc = "pool"
  /\ queued = 0
  /\ running = 0
  /\ batch_pc' = "check"
  /\ UNCHANGED << video_count, num_cores, batch_start, queued, running,
                  processed, raised, caught, memory_percent, slept, checks,
                  collects, outside_batch >>

\* check_memory_usage: above 90 % it prints, sleeps and collects.
CheckMemoryUsage ==
  /\ batch_pc = "check"
  /\ \E percent \in MemoryPercents :
       /\ memory_percent' = percent
       /\ slept' = (percent > MemoryHighPercent)
  /\ checks' = checks + 1
  /\ batch_pc' = "collect"
  /\ UNCHANGED << video_count, num_cores, batch_start, queued, running,
                  processed, raised, caught, collects, outside_batch >>

\* gc.collect() at the end of the loop body; the loop variable advances.
GcCollect ==
  /\ batch_pc = "collect"
  /\ collects' = collects + 1
  /\ batch_start' = batch_start + batch_size
  /\ batch_pc' = "loop"
  /\ UNCHANGED << video_count, num_cores, queued, running, processed, raised,
                  caught, memory_percent, slept, checks, outside_batch >>

\* range(0, len(video_files), batch_size) is exhausted.
FinishRun ==
  /\ batch_pc = "loop"
  /\ batch_start >= video_count
  /\ batch_pc' = "done"
  /\ UNCHANGED << video_count, num_cores, batch_start, queued, running,
                  processed, raised, caught, memory_percent, slept, checks,
                  collects, outside_batch >>

BatchNext ==
  \/ StartBatch
  \/ WorkerStart
  \/ WorkerReturn
  \/ WorkerRaise
  \/ ExitPool
  \/ CheckMemoryUsage
  \/ GcCollect
  \/ FinishRun

BatchSpec == BatchInit /\ [][BatchNext]_vars

\* C15: an error raised while processing one video aborts only that video:
\* the orchestrator catches and logs each failure, the run does not crash and
\* every other video of the same and of later batches is processed.
C15_FailuresCaughtAndLogged ==
  batch_pc = "done" =>
    /\ processed = video_count - raised
    /\ caught = raised

\* What process_all_videos does about a failure: the run ends with every
\* other video processed and no failure retrieved.
C15_OthersStillProcessed ==
  batch_pc = "done" =>
    /\ processed = video_count - raised
    /\ caught = 0

\* C16: bounded batches with a barrier: at most batch_size videos are
\* submitted and at most num_cores run at any time; a video of a batch starts
\* only when every video of the earlier batches has finished; before a batch
\* after the first starts, check_memory_usage has run for each earlier batch
\* (pausing and collecting when usage is above 90 %) and so has gc.collect().
C16_BoundedBatchesWithBarrier ==
  /\ queued + running <= batch_size
  /\ running <= num_cores
  /\ (queued + running > 0) =>
       /\ batch_pc = "pool"
       /\ processed + raised >= batch_start
       /\ processed + raised + queued + running <= batch_start + batch_size
  /\ batch_pc = "pool" =>
       /\ checks * batch_size = batch_start
       /\ collects * batch_size = batch_start
  /\ checks > 0 => (slept <=> memory_percent > 90)
  /\ batch_pc = "collect" => checks = collects + 1

\* C16 witness: the second batch is running on every core after a check that
\* paused.
C16_Witness ==
  /\ batch_pc = "pool"
  /\ batch_start = batch_size
  /\ running = num_cores
  /\ num_cores > 1
  /\ slept

-----------------------------------------------------------------------------
\* get_video_frames(video_path, frame_idx_iterator) with an iterator

\* Largest frame index requested.
MaxFrame == 5

\* Most indices requested in a run.
MaxRequests == 3

\* Strictly ascending sequences of frame indices.
AscendingSeqs ==
  UNION { { q \in [1..n -> 0..MaxFrame] :
              \A a, b \in 1..n : a < b => q[a] < q[b] } : n \in 0..MaxRequests }

\* The decoder is a cursor over the frames 0 .. total_frames - 1; frame k is
\* written k.  set(p) makes p the next frame to be grabbed, grab() grabs it
\* and advances the cursor, retrieve() returns the frame grabbed last.
\* What retrieve() has to return after set(p) with no grab() since: nothing,
\* or frame p - 1, which a decoder that seeks by decoding up to p holds.
after_set(p) == {-1} \cup (IF p > 0 THEN {p - 1} ELSE {})

ReaderInit ==
  /\ requested \in AscendingSeqs
  /\ total_frames \in 1..(MaxFrame + 1)
  /\ reader_pc = "start"
  /\ cur_idx = 0
  /\ target = 0
  /\ it_next = 1
  /\ cursor = 0
  /\ grabbed = -1
  /\ pairs = << >>
  /\ OutsideReaderIdle

\* idx = next(it); target = idx; vc.set(cv2.CAP_PROP_POS_FRAMES, idx)
FirstIndex ==
  /\ reader_pc = "start"
  /\ requested # << >>
  /\ cur_idx' = requested[1]
  /\ target' = requested[1]
  /\ it_next' = 2
  /\ cursor' = requested[1]
  /\ grabbed' \in after_set(requested[1])
  /\ reader_pc' = "loop"
  /\ UNCHANGED << requested, total_frames, pairs, outside_reader >>

\* next(it) raises StopIteration at once: nothing was requested
NoIndex ==
  /\ reader_pc = "start"
  /\ requested = << >>
  /\ reader_pc' = "exhausted"
  /\ UNCHANGED << requested, total_frames, cur_idx, target, it_next, cursor,
                  grabbed, pairs, outside_reader >>

\* idx < target: vc.grab() succeeds; idx += 1
Grab ==
  /\ reader_pc = "loop"
  /\ cur_idx < target
  /\ cursor < total_frames
  /\ grabbed' = cursor
  /\ cursor' = cursor + 1
  /\ cur_idx' = cur_idx + 1
  /\ UNCHANGED << requested, total_frames, reader_pc, target, it_next, pairs,
                  outside_reader >>

\* idx < target: vc.grab() fails at the end of the video; return
GrabFail ==
  /\ reader_pc = "loop"
  /\ cur_idx < target
  /\ cursor >= total_frames
  /\ reader_pc' = "failed"
  /\ UNCHANGED << requested, total_frames, cur_idx, target, it_next, cursor,
                  grabbed, pairs, outside_reader >>

\* idx >= target: vc.retrieve() returns the frame grabbed last;
\* yield idx, frame; target = next(it), or StopIteration and return
Retrieve ==
  /\ reader_pc = "loop"
  /\ cur_idx >= target
  /\ grabbed # -1
  /\ pairs' = Append(pairs, << cur_idx, grabbed >>)
  /\ IF it_next <= Len(requested)
     THEN /\ target' = requested[it_next]
          /\ it_next' = it_next + 1
          /\ reader_pc' = "loop"
     ELSE /\ reader_pc' = "exhausted"
          /\ UNCHANGED << target, it_next >>
  /\ UNCHANGED << requested, total_frames, cur_idx, cursor, grabbed,
                  outside_reader >>

\* idx >= target: vc.retrieve() fails (nothing grabbed, or the frame cannot
\* be decoded); return
RetrieveFail ==
  /\ reader_pc = "loop"
  /\ cur_idx >= target
  /\ reader_pc' = "failed"
  /\ UNCHANGED << requested, total_frames, cur_idx, target, it_next, cursor,
                  grabbed, pairs, outside_reader >>

ReaderNext ==
  \/ FirstIndex
  \/ NoIndex
  \/ Grab
  \/ GrabFail
  \/ Retrieve
  \/ RetrieveFail

ReaderSpec == ReaderInit /\ [][ReaderNext]_vars

\* the indices yielded are the first indices requested, in order
IndicesArePrefix ==
  /\ Len(pairs) <= Len(requested)
  /\ \A k \in 1..Len(pairs) : pairs[k][1] = requested[k]
  /\ reader_pc = "exhausted" => Len(pairs) = Len(requested)

\* C17: for strictly ascending requests the pairs yielded carry exactly the
\* requested indices in order, each once, all of them unless a grab or
\* retrieve failed, and the image paired with index i is the frame at decode
\* position i.
C17_PairsAreRequestedFrames ==
  /\ IndicesArePrefix
  /\ \A k \in 1..Len(pairs) : pairs[k][2] = pairs[k][1]

\* What get_video_frames does: the indices are as requested, and the image
\* paired with index i is the frame at decode position i - 1, the last one
\* grabbed before the retrieve.
C17_PairsAreFramesBefore ==
  /\ IndicesArePrefix
  /\ \A k \in 1..Len(pairs) : pairs[k][2] = pairs[k][1] - 1

====
